---- MODULE Spec2Model ----
(***************************************************************************)
(* A model of the preprocessing library (src/src/preprocessing.py).        *)
(*                                                                         *)
(* Python values are records [kind, s, n]: kind is the Python type, s the  *)
(* characters of a str (a sequence of one-character strings), n the value  *)
(* of an int.  Floats are exact rationals [num, den] (rounding is not      *)
(* modelled), or, where only comparisons matter, [nan, v].                 *)
(*                                                                         *)
(* Spec        one call of one pure function on inputs drawn by Init.      *)
(* SpecSession a sequence of library calls in one process, which share the *)
(*             module-level generator of Python's random module.           *)
(***************************************************************************)
EXTENDS Integers, Sequences, FiniteSets

VARIABLES
    pc,       \* "call" before the call of Spec, "done" after it; "session" in SpecSession
    op,       \* the function called
    args,     \* its arguments, as passed
    result,   \* what it returned
    raised,   \* the exception that left it, "none" if it returned
    caller,   \* the caller's list (the object passed as values) after the call
    rng,      \* the state of the random module's shared generator
    watch,    \* SpecSession: the (values, seed) whose calls are compared
    refOut    \* SpecSession: the calls of shuffle(watch) so far and the first one's result

vars == <<pc, op, args, result, raised, caller, rng, watch, refOut>>

(* ------------------------------ bounds --------------------------------- *)

MaxMissingLen == 3
MaxDupLen == 4
MaxClipLen == 3
MaxNormLen == 3
MaxIntsLen == 3
MaxTextLen == 3
MaxStopLen == 2
MaxShufLen == 3
RngMod == 8

SeqsUpTo(S, n) == UNION {[1..k -> S] : k \in 0..n}

(* ------------------------------ strings -------------------------------- *)

UpperChars == <<"A","B","C","D","E","F","G","H","I","J","K","L","M",
                "N","O","P","Q","R","S","T","U","V","W","X","Y","Z">>
LowerChars == <<"a","b","c","d","e","f","g","h","i","j","k","l","m",
                "n","o","p","q","r","s","t","u","v","w","x","y","z">>
DigitChars == <<"0","1","2","3","4","5","6","7","8","9">>

\* str.lower() on one ASCII character
lower_char(c) ==
    IF \E i \in 1..Len(UpperChars) : UpperChars[i] = c
    THEN LowerChars[CHOOSE i \in 1..Len(UpperChars) : UpperChars[i] = c]
    ELSE c

\* str.lower()
lower(s) == [i \in 1..Len(s) |-> lower_char(s[i])]

RECURSIVE nat_str(_)
nat_str(n) ==
    IF n < 10 THEN <<DigitChars[n + 1]>>
    ELSE nat_str(n \div 10) \o <<DigitChars[(n % 10) + 1]>>

\* str(n) for an int n
int_str(n) == IF n < 0 THEN <<"-">> \o nat_str(-n) ELSE nat_str(n)

(* --------------------------- Python values ----------------------------- *)

PyNone == [kind |-> "NoneType", s |-> <<>>, n |-> 0]
PyStr(s) == [kind |-> "str", s |-> s, n |-> 0]
PyInt(n) == [kind |-> "int", s |-> <<>>, n |-> n]
PyFloatNaN == [kind |-> "float_nan", s |-> <<>>, n |-> 0]

\* str(v)
str(v) ==
    CASE v.kind = "NoneType" -> <<"N","o","n","e">>
      [] v.kind = "str" -> v.s
      [] v.kind = "int" -> int_str(v.n)
      [] v.kind = "float_nan" -> <<"n","a","n">>

\* v == "" : only a str compares equal to a str
eq_empty_str(v) == v.kind = "str" /\ v.s = <<>>

\* v is None
is_none(v) == v.kind = "NoneType"

(* ------------------------------ cleaning ------------------------------- *)

remove_missing_keeps_no_lower(v) ==
    /\ ~is_none(v)
    /\ ~eq_empty_str(v)
    /\ str(v) # <<"n","a","n">>
    /\ str(v) # <<"n","o","n","e">>

\* the condition of remove_missing's if
remove_missing_keeps(v) ==
    /\ ~is_none(v)
    /\ ~eq_empty_str(v)
    /\ lower(str(v)) # <<"n","a","n">>
    /\ lower(str(v)) # <<"n","o","n","e">>

RECURSIVE remove_missing_from(_, _, _)
remove_missing_from(values, i, acc) ==
    IF i > Len(values) THEN acc
    ELSE remove_missing_from(values, i + 1,
             IF remove_missing_keeps(values[i]) THEN Append(acc, values[i]) ELSE acc)

remove_missing(values) == remove_missing_from(values, 1, <<>>)

fill_missing_replaces_no_none_text(v) ==
    \/ is_none(v)
    \/ eq_empty_str(v)
    \/ lower(str(v)) = <<"n","a","n">>

\* the condition of fill_missing's if
fill_missing_replaces(v) ==
    \/ is_none(v)
    \/ eq_empty_str(v)
    \/ lower(str(v)) = <<"n","a","n">>
    \/ lower(str(v)) = <<"n","o","n","e">>

RECURSIVE fill_missing_from(_, _, _, _)
fill_missing_from(values, fill_value, i, acc) ==
    IF i > Len(values) THEN acc
    ELSE fill_missing_from(values, fill_value, i + 1,
             IF fill_missing_replaces(values[i]) THEN Append(acc, fill_value)
             ELSE Append(acc, values[i]))

fill_missing(values, fill_value) == fill_missing_from(values, fill_value, 1, <<>>)

remove_duplicates_step_forgets(x, seen, acc) ==
    IF x \in seen THEN [seen |-> seen, acc |-> acc]
    ELSE [seen |-> {x}, acc |-> Append(acc, x)]

\* one element of the comprehension: not (x in seen or seen.add(x))
remove_duplicates_step(x, seen, acc) ==
    IF x \in seen THEN [seen |-> seen, acc |-> acc]
    ELSE [seen |-> seen \cup {x}, acc |-> Append(acc, x)]

RECURSIVE remove_duplicates_from(_, _, _, _)
remove_duplicates_from(values, i, seen, acc) ==
    IF i > Len(values) THEN acc
    ELSE LET st == remove_duplicates_step(values[i], seen, acc)
         IN remove_duplicates_from(values, i + 1, st.seen, st.acc)

remove_duplicates(values) == remove_duplicates_from(values, 1, {}, <<>>)

(* ------------------------------ numeric -------------------------------- *)

\* A float where only its order matters: NaN, or a finite value v.
Num(v) == [nan |-> FALSE, v |-> v]
NaN == [nan |-> TRUE, v |-> 0]

\* a < b on floats: every comparison with NaN is false
py_lt(a, b) == ~a.nan /\ ~b.nan /\ a.v < b.v

\* a <= b on floats
py_le(a, b) == ~a.nan /\ ~b.nan /\ a.v <= b.v

\* min(a, b): the first argument unless the second is smaller
py_min2(a, b) == IF py_lt(b, a) THEN b ELSE a

\* max(a, b): the first argument unless the second is greater
py_max2(a, b) == IF py_lt(a, b) THEN b ELSE a

clip_element_upper_only(v, min_val, max_val) == py_min2(v, max_val)

\* max(min_val, min(v, max_val))
clip_element(v, min_val, max_val) == py_max2(min_val, py_min2(v, max_val))

clip(values, min_val, max_val) ==
    [i \in 1..Len(values) |-> clip_element(values[i], min_val, max_val)]

\* Exact arithmetic on finite floats: a value is num / den with den > 0.
Rat(n) == [num |-> n, den |-> 1]
Abs(n) == IF n < 0 THEN -n ELSE n

RECURSIVE Gcd(_, _)
Gcd(a, b) == IF b = 0 THEN a ELSE Gcd(b, a % b)

RatNorm(r) ==
    LET g == Gcd(Abs(r.num), r.den)
    IN [num |-> r.num \div g, den |-> r.den \div g]

RatAdd(a, b) == RatNorm([num |-> a.num * b.den + b.num * a.den, den |-> a.den * b.den])
RatSub(a, b) == RatNorm([num |-> a.num * b.den - b.num * a.den, den |-> a.den * b.den])
RatMul(a, b) == RatNorm([num |-> a.num * b.num, den |-> a.den * b.den])
\* a / b for b # 0
RatDiv(a, b) ==
    RatNorm([num |-> (IF b.num < 0 THEN -1 ELSE 1) * a.num * b.den,
             den |-> a.den * Abs(b.num)])
RatLt(a, b) == a.num * b.den < b.num * a.den
RatLe(a, b) == a.num * b.den <= b.num * a.den
RatEq(a, b) == a.num * b.den = b.num * a.den

\* min(values), max(values) for non-empty values: the first least / greatest
RECURSIVE rat_min_from(_, _, _)
rat_min_from(values, i, m) ==
    IF i > Len(values) THEN m
    ELSE rat_min_from(values, i + 1, IF RatLt(values[i], m) THEN values[i] ELSE m)
rat_min(values) == rat_min_from(values, 2, values[1])

RECURSIVE rat_max_from(_, _, _)
rat_max_from(values, i, m) ==
    IF i > Len(values) THEN m
    ELSE rat_max_from(values, i + 1, IF RatLt(m, values[i]) THEN values[i] ELSE m)
rat_max(values) == rat_max_from(values, 2, values[1])

normalize_element_no_offset(v, v_min, v_max, new_min, new_max) ==
    RatDiv(RatMul(RatSub(v, v_min), RatSub(new_max, new_min)), RatSub(v_max, v_min))

\* new_min + (v - v_min) * (new_max - new_min) / (v_max - v_min)
normalize_element(v, v_min, v_max, new_min, new_max) ==
    RatAdd(new_min,
           RatDiv(RatMul(RatSub(v, v_min), RatSub(new_max, new_min)),
                  RatSub(v_max, v_min)))

normalize(values, new_min, new_max) ==
    IF values = <<>> THEN <<>>
    ELSE LET v_min == rat_min(values)
             v_max == rat_max(values)
         IN IF RatEq(v_min, v_max)
            THEN [i \in 1..Len(values) |-> new_min]
            ELSE [i \in 1..Len(values) |->
                     normalize_element(values[i], v_min, v_max, new_min, new_max)]

\* str.strip() of spaces, as float() does before parsing
RECURSIVE strip(_)
strip(s) ==
    IF s = <<>> THEN s
    ELSE IF s[1] = " " THEN strip(Tail(s))
    ELSE IF s[Len(s)] = " " THEN strip(SubSeq(s, 1, Len(s) - 1))
    ELSE s

is_digit(c) == \E d \in 1..Len(DigitChars) : DigitChars[d] = c
digit_val(c) == (CHOOSE d \in 1..Len(DigitChars) : DigitChars[d] = c) - 1

RECURSIVE parse_nat(_)
parse_nat(s) ==
    IF s = <<>> THEN 0
    ELSE 10 * parse_nat(SubSeq(s, 1, Len(s) - 1)) + digit_val(s[Len(s)])

RECURSIVE Pow10(_)
Pow10(k) == IF k = 0 THEN 1 ELSE 10 * Pow10(k - 1)

\* The result of float(x) or int(x): the exception raised ("none" if none), and for
\* a float its class (finite, inf, nan) and exact value.
Raise(e) == [exc |-> e, cls |-> "finite", val |-> Rat(0)]
Float(cls, val) == [exc |-> "none", cls |-> cls, val |-> val]

\* float(s) for a str s: [sign] digits [. digits] | [sign] . digits |
\* [sign] inf | infinity | nan (any case), surrounded by spaces; anything else
\* among the inputs drawn here is a ValueError.
parse_float(s0) ==
    LET s == strip(s0)
        signed == Len(s) > 0 /\ s[1] \in {"+", "-"}
        sign == IF Len(s) > 0 /\ s[1] = "-" THEN -1 ELSE 1
        body == IF signed THEN Tail(s) ELSE s
        low == lower(body)
        dots == {i \in 1..Len(body) : body[i] = "."}
        dot == IF dots = {} THEN Len(body) + 1 ELSE CHOOSE i \in dots : TRUE
        ipart == SubSeq(body, 1, dot - 1)
        fpart == SubSeq(body, dot + 1, Len(body))
    IN IF low = <<"i","n","f">> \/ low = <<"i","n","f","i","n","i","t","y">>
       THEN Float("inf", Rat(sign))
       ELSE IF low = <<"n","a","n">>
       THEN Float("nan", Rat(0))
       ELSE IF /\ Cardinality(dots) <= 1
               /\ Len(ipart) + Len(fpart) >= 1
               /\ \A i \in 1..Len(ipart) : is_digit(ipart[i])
               /\ \A i \in 1..Len(fpart) : is_digit(fpart[i])
       THEN Float("finite",
                  RatNorm([num |-> sign * parse_nat(ipart \o fpart),
                           den |-> Pow10(Len(fpart))]))
       ELSE Raise("ValueError")

\* float(v)
py_float(v) ==
    IF v.kind = "str" THEN parse_float(v.s)
    ELSE IF v.kind = "int" THEN Float("finite", Rat(v.n))
    ELSE IF v.kind = "float_nan" THEN Float("nan", Rat(0))
    ELSE Raise("TypeError")

\* int(f) for a float f: truncation toward zero
py_int(f) ==
    IF f.cls = "nan" THEN Raise("ValueError")
    ELSE IF f.cls = "inf" THEN Raise("OverflowError")
    ELSE [exc |-> "none", cls |-> "int",
          val |-> IF f.val.num >= 0 THEN f.val.num \div f.val.den
                  ELSE -((-f.val.num) \div f.val.den)]

\* int(float(s))
int_float(s) ==
    LET f == py_float(s)
    IN IF f.exc # "none" THEN f ELSE py_int(f)

\* except (ValueError, TypeError)
to_integers_catches(e) == e \in {"ValueError", "TypeError"}

RECURSIVE to_integers_from(_, _, _)
to_integers_from(str_list, i, acc) ==
    IF i > Len(str_list) THEN [raised |-> "none", result |-> acc]
    ELSE LET r == int_float(str_list[i])
         IN IF r.exc = "none" THEN to_integers_from(str_list, i + 1, Append(acc, r.val))
            ELSE IF to_integers_catches(r.exc) THEN to_integers_from(str_list, i + 1, acc)
            ELSE [raised |-> r.exc, result |-> <<>>]

to_integers(str_list) == to_integers_from(str_list, 1, <<>>)

(* -------------------------------- text --------------------------------- *)

\* str.split(): the maximal runs of non-space characters
RECURSIVE split_from(_, _, _, _)
split_from(s, i, cur, acc) ==
    LET closed == IF cur = <<>> THEN acc ELSE Append(acc, cur)
    IN IF i > Len(s) THEN closed
       ELSE IF s[i] = " " THEN split_from(s, i + 1, <<>>, closed)
       ELSE split_from(s, i + 1, Append(cur, s[i]), acc)

split(s) == split_from(s, 1, <<>>, <<>>)

\* " ".join(words)
RECURSIVE join(_)
join(words) ==
    IF words = <<>> THEN <<>>
    ELSE IF Len(words) = 1 THEN words[1]
    ELSE words[1] \o <<" ">> \o join(Tail(words))

\* w in stopwords, for a list
in_list(w, list) == \E i \in 1..Len(list) : list[i] = w

remove_stopwords(text, stopwords) ==
    LET words == split(lower(text))
    IN join(SelectSeq(words, LAMBDA w : ~in_list(w, stopwords)))

(* ----------------------------- structure ------------------------------ *)

\* random.seed(a) for an int a: the generator's state becomes a function of abs(a)
random_seed(a) == (3 * Abs(a.n) + 1) % RngMod

\* One draw below n from the generator in state g: the value and the next state.
\* The generator is abstracted to a linear congruential one on RngMod states.
randbelow(n, g) ==
    LET g1 == (5 * g + 3) % RngMod
    IN [val |-> g1 % n, g |-> g1]

swap(x, i, j) == [x EXCEPT ![i] = x[j], ![j] = x[i]]

\* random.shuffle(x): for i in reversed(range(1, len(x))): j = randbelow(i + 1);
\* x[i], x[j] = x[j], x[i]   (indices here are one more than Python's)
RECURSIVE random_shuffle_from(_, _, _)
random_shuffle_from(x, i, g) ==
    IF i < 2 THEN [x |-> x, g |-> g]
    ELSE LET r == randbelow(i, g)
         IN random_shuffle_from(swap(x, i, r.val + 1), i - 1, r.g)

random_shuffle(x, g) == random_shuffle_from(x, Len(x), g)

shuffle_in_place(values, seed, g) ==
    LET g1 == IF ~is_none(seed) THEN random_seed(seed) ELSE g
        sh == random_shuffle(values, g1)
    IN [values |-> sh.x, result |-> sh.x, rng |-> sh.g]

shuffle_never_seeds(values, seed, g) ==
    LET sh == random_shuffle(values, g)
    IN [values |-> values, result |-> sh.x, rng |-> sh.g]

\* shuffle(values, seed) with the shared generator in state g: the caller's list
\* after the call, the list returned, and the generator's state after the call.
shuffle(values, seed, g) ==
    LET copy == values
        g1 == IF ~is_none(seed) THEN random_seed(seed) ELSE g
        sh == random_shuffle(copy, g1)
    IN [values |-> values, result |-> sh.x, rng |-> sh.g]

(* ------------------------------ inputs --------------------------------- *)

MissingPool ==
    { PyNone, PyFloatNaN, PyInt(1),
      PyStr(<<>>), PyStr(<<"n","a","n">>), PyStr(<<"N","a","N">>),
      PyStr(<<"N","o","n","e">>), PyStr(<<"N","O","N","E">>),
      PyStr(<<"n","a">>) }

FillPool == { PyInt(0), PyInt(9), PyStr(<<"n","a","n">>) }

DupPool == { PyNone, PyInt(1), PyStr(<<"1">>), PyStr(<<"a">>) }

ClipPool == { NaN, Num(0), Num(1), Num(2), Num(3) }
\* A NaN bound compares false with everything, min_val <= max_val included.
ClipBounds == { Num(0), Num(1), Num(2), Num(3) }

NormPool == { Rat(-1), Rat(0), Rat(1), Rat(2) }
NormBounds == { Rat(-1), Rat(0), Rat(1), Rat(2) }

IntsPool ==
    { PyNone, PyStr(<<>>), PyStr(<<"1">>), PyStr(<<"2",".","5">>),
      PyStr(<<"-","2",".","5">>), PyStr(<<"a">>), PyStr(<<".">>),
      PyStr(<<" ","3">>), PyStr(<<"N","a","N">>), PyStr(<<"i","n","f">>) }

TextChars == { "a", "A", "b", " " }
StopPool == { <<"a">>, <<"A">>, <<"b">>, <<"A","b">> }

ShufPool == { PyInt(1), PyInt(2) }
ShufLists == SeqsUpTo(ShufPool, MaxShufLen)
Seeds == { PyInt(1), PyInt(2) }

(* ------------------------------- calls --------------------------------- *)

InitRemoveMissing ==
    /\ op = "remove_missing"
    /\ args \in [values : SeqsUpTo(MissingPool, MaxMissingLen)]

InitFillMissing ==
    /\ op = "fill_missing"
    /\ args \in [values : SeqsUpTo(MissingPool, MaxMissingLen), fill_value : FillPool]

InitRemoveDuplicates ==
    /\ op = "remove_duplicates"
    /\ args \in [values : SeqsUpTo(DupPool, MaxDupLen)]

InitClip ==
    /\ op = "clip"
    /\ args \in [values : SeqsUpTo(ClipPool, MaxClipLen),
                 min_val : ClipBounds, max_val : ClipBounds]

InitNormalize ==
    /\ op = "normalize"
    /\ args \in [values : SeqsUpTo(NormPool, MaxNormLen),
                 new_min : NormBounds, new_max : NormBounds]

InitToIntegers ==
    /\ op = "to_integers"
    /\ args \in [str_list : SeqsUpTo(IntsPool, MaxIntsLen)]

InitRemoveStopwords ==
    /\ op = "remove_stopwords"
    /\ args \in [text : SeqsUpTo(TextChars, MaxTextLen),
                 stopwords : SeqsUpTo(StopPool, MaxStopLen)]

Init ==
    /\ pc = "call"
    /\ result = <<>>
    /\ raised = "none"
    /\ caller = <<>>
    /\ rng \in 0..(RngMod - 1)
    /\ watch = <<>>
    /\ refOut = <<>>
    /\ \/ InitRemoveMissing
       \/ InitFillMissing
       \/ InitRemoveDuplicates
       \/ InitClip
       \/ InitNormalize
       \/ InitToIntegers
       \/ InitRemoveStopwords

Return(r) ==
    /\ pc' = "done"
    /\ result' = r
    /\ UNCHANGED <<op, args, raised, caller, rng, watch, refOut>>

RemoveMissing ==
    /\ pc = "call" /\ op = "remove_missing"
    /\ Return(remove_missing(args.values))

FillMissing ==
    /\ pc = "call" /\ op = "fill_missing"
    /\ Return(fill_missing(args.values, args.fill_value))

RemoveDuplicates ==
    /\ pc = "call" /\ op = "remove_duplicates"
    /\ Return(remove_duplicates(args.values))

Clip ==
    /\ pc = "call" /\ op = "clip"
    /\ Return(clip(args.values, args.min_val, args.max_val))

Normalize ==
    /\ pc = "call" /\ op = "normalize"
    /\ Return(normalize(args.values, args.new_min, args.new_max))

ToIntegers ==
    /\ pc = "call" /\ op = "to_integers"
    /\ LET r == to_integers(args.str_list)
       IN /\ pc' = "done"
          /\ result' = r.result
          /\ raised' = r.raised
    /\ UNCHANGED <<op, args, caller, rng, watch, refOut>>

RemoveStopwords ==
    /\ pc = "call" /\ op = "remove_stopwords"
    /\ Return(remove_stopwords(args.text, args.stopwords))

Next ==
    \/ RemoveMissing
    \/ FillMissing
    \/ RemoveDuplicates
    \/ Clip
    \/ Normalize
    \/ ToIntegers
    \/ RemoveStopwords

Spec == Init /\ [][Next]_vars

(* ------------------------------ session -------------------------------- *)

InitSession ==
    /\ pc = "session"
    /\ op = "none"
    /\ args = <<>>
    /\ result = <<>>
    /\ raised = "none"
    /\ caller = <<>>
    /\ rng \in 0..(RngMod - 1)
    /\ watch \in [values : ShufLists, seed : Seeds]
    /\ refOut = [calls |-> 0, out |-> <<>>, between |-> FALSE]

\* refOut after a call of shuffle with arguments a that returned out
Noted(a, out) ==
    IF a = watch
    THEN [calls |-> IF refOut.calls < 2 THEN refOut.calls + 1 ELSE 2,
          out |-> IF refOut.calls = 0 THEN out ELSE refOut.out,
          between |-> refOut.between]
    ELSE [refOut EXCEPT !.between = refOut.calls > 0]

ShuffleCall ==
    \E values \in ShufLists, seed \in Seeds \cup {PyNone} :
        LET r == shuffle(values, seed, rng)
            a == [values |-> values, seed |-> seed]
        IN /\ op' = "shuffle"
           /\ args' = a
           /\ result' = r.result
           /\ caller' = r.values
           /\ rng' = r.rng
           /\ refOut' = Noted(a, r.result)
           /\ UNCHANGED <<pc, raised, watch>>

RemoveDuplicatesCall ==
    \E values \in ShufLists :
        /\ op' = "remove_duplicates"
        /\ args' = [values |-> values]
        /\ result' = remove_duplicates(values)
        /\ caller' = values
        /\ refOut' = [refOut EXCEPT !.between = refOut.calls > 0]
        /\ UNCHANGED <<pc, raised, rng, watch>>

NextSession ==
    \/ ShuffleCall
    \/ RemoveDuplicatesCall

SpecSession == InitSession /\ [][NextSession]_vars

(* ------------------------------ properties ----------------------------- *)

Done(f) == pc = "done" /\ op = f

Range(s) == {s[i] : i \in DOMAIN s}
Count(s, x) == Cardinality({i \in DOMAIN s : s[i] = x})
IsPermutation(a, b) ==
    /\ Len(a) = Len(b)
    /\ \A x \in Range(a) \cup Range(b) : Count(a, x) = Count(b, x)

\* the index of the first occurrence in s of a value that occurs in s
FirstIndex(s, x) == CHOOSE i \in DOMAIN s : s[i] = x /\ \A j \in 1..(i - 1) : s[j] # x

\* The missing-value rule in the words of the specification: None, the empty
\* string, or a string form that lower-cased is "nan" or "none".
Missing(v) ==
    \/ v = PyNone
    \/ v = PyStr(<<>>)
    \/ lower(str(v)) \in { <<"n","a","n">>, <<"n","o","n","e">> }

\* C1: remove_duplicates(S) is the list of distinct values of S in order of first
\* occurrence: no value twice, every value of S present, a subsequence of S (the
\* first occurrences, in increasing position), and a fixed point of remove_duplicates.
C1_RemoveDuplicatesFirstOccurrences ==
    Done("remove_duplicates") =>
        LET S == args.values
            R == result
        IN /\ \A i, j \in DOMAIN R : i # j => R[i] # R[j]
           /\ \A i \in DOMAIN S : S[i] \in Range(R)
           /\ \A i \in DOMAIN R : R[i] \in Range(S)
           /\ \A i, j \in DOMAIN R : i < j => FirstIndex(S, R[i]) < FirstIndex(S, R[j])
           /\ remove_duplicates(R) = R

\* C1 witness: a call that dropped a later duplicate and kept three distinct values.
C1_Witness ==
    /\ Done("remove_duplicates")
    /\ Len(result) = 3
    /\ Len(args.values) = 4
    /\ args.values[4] = args.values[1]

ClipWithin(lo, hi) ==
    /\ Len(result) = Len(args.values)
    /\ \A i \in DOMAIN result : py_le(lo, result[i]) /\ py_le(result[i], hi)

\* C2 as stated: for every pair of bounds, every element v of clip(S, min_val,
\* max_val) satisfies min_val <= v <= max_val and the output is as long as S.
C2_ClipWithinAnyBounds ==
    Done("clip") => ClipWithin(args.min_val, args.max_val)

\* C2 amended: whenever min_val <= max_val, every element v of clip(S, min_val,
\* max_val) satisfies min_val <= v <= max_val and the output is as long as S.
C2_ClipWithinOrderedBounds ==
    (Done("clip") /\ py_le(args.min_val, args.max_val)) =>
        ClipWithin(args.min_val, args.max_val)

\* C2 witness: ordered bounds, one element raised to min_val, one lowered to
\* max_val, and a NaN element among the inputs.
C2_Witness ==
    /\ Done("clip")
    /\ py_lt(args.min_val, args.max_val)
    /\ \E i \in DOMAIN result : py_lt(args.values[i], args.min_val) /\ result[i] = args.min_val
    /\ \E i \in DOMAIN result : py_lt(args.max_val, args.values[i]) /\ result[i] = args.max_val
    /\ \E i \in DOMAIN result : args.values[i].nan

NormalizeRange ==
    LET S == args.values
        R == result
    IN IF S = <<>> THEN R = <<>>
       ELSE /\ Len(R) = Len(S)
            /\ IF \A i \in DOMAIN S : RatEq(S[i], S[1])
               THEN \A i \in DOMAIN R : RatEq(R[i], args.new_min)
               ELSE /\ \A i \in DOMAIN R : RatLe(args.new_min, R[i]) /\ RatLe(R[i], args.new_max)
                    /\ \E i \in DOMAIN R : RatEq(R[i], args.new_min)
                    /\ \E i \in DOMAIN R : RatEq(R[i], args.new_max)

C4_SeededShuffleReproducible ==
    (op = "shuffle" /\ args = watch /\ refOut.calls >= 1) => result = refOut.out

\* C4 witness: a second call with the watched arguments, after other calls came
\* between, on a list of three that the shuffle reordered.
C4_Witness ==
    /\ op = "shuffle"
    /\ args = watch
    /\ refOut.calls = 2
    /\ refOut.between
    /\ Len(result) = 3
    /\ result # args.values

C6_NoSharedMutableState == [][rng' = rng]_vars

\* the elements of s that float() parses to a finite value, each truncated toward
\* zero, in order
RECURSIVE Converted(_)
Converted(s) ==
    IF s = <<>> THEN <<>>
    ELSE LET f == py_float(s[1])
         IN IF f.exc = "none" /\ f.cls = "finite"
            THEN <<py_int(f).val>> \o Converted(Tail(s))
            ELSE Converted(Tail(s))

\* C7: to_integers never raises, whatever the strings ("inf" and "nan" included):
\* it returns the convertible elements truncated toward zero, in order, and drops
\* the others.
C7_ToIntegersNeverRaises ==
    Done("to_integers") => (raised = "none" /\ result = Converted(args.str_list))

\* C8: a word of the text is dropped if and only if it equals a stopword when case
\* is ignored on both sides; the other words come out lower-cased, in order, joined
\* by single spaces.
C8_StopwordsCaseInsensitive ==
    Done("remove_stopwords") =>
        LET words == split(args.text)
            kept == SelectSeq(words, LAMBDA w :
                        ~\E i \in DOMAIN args.stopwords : lower(args.stopwords[i]) = lower(w))
        IN result = join([i \in DOMAIN kept |-> lower(kept[i])])

\* C9: remove_missing(S) is the subsequence of S, in order and unchanged, of exactly
\* the elements that are not missing; it holds no missing element and is a fixed
\* point of remove_missing.
C9_RemoveMissingSubsequence ==
    Done("remove_missing") =>
        /\ result = SelectSeq(args.values, LAMBDA v : ~Missing(v))
        /\ \A i \in DOMAIN result : ~Missing(result[i])
        /\ remove_missing(result) = result

\* C9 witness: a call that dropped an upper-case "NONE" and a float NaN and kept
\* an element.
C9_Witness ==
    /\ Done("remove_missing")
    /\ PyStr(<<"N","O","N","E">>) \in Range(args.values)
    /\ PyFloatNaN \in Range(args.values)
    /\ Len(result) = 1

\* C10: fill_missing(S, f) is as long as S and holds f at each index where S is
\* missing and S[i] elsewhere; the indices it replaces are the ones remove_missing
\* drops.
C10_FillMissingByIndex ==
    Done("fill_missing") =>
        LET S == args.values
        IN /\ Len(result) = Len(S)
           /\ \A i \in DOMAIN S :
                 result[i] = IF Missing(S[i]) THEN args.fill_value ELSE S[i]
           /\ remove_missing(S) = SelectSeq(S, LAMBDA v : ~fill_missing_replaces(v))

\* C10 witness: a call that replaced the text "None" and None and let an element
\* through.
C10_Witness ==
    /\ Done("fill_missing")
    /\ Len(args.values) = 3
    /\ args.values[1] = PyStr(<<"N","o","n","e">>) /\ result[1] = args.fill_value
    /\ args.values[2] = PyNone /\ result[2] = args.fill_value
    /\ args.values[3] = PyInt(1) /\ result[3] = PyInt(1)
    /\ args.fill_value = PyInt(9)

====
